---- MODULE Spec2Model ----
(***************************************************************************)
(* Model of src/main.py: the Code Exporter.  A Tk window lets the user     *)
(* pick a folder, an export mode, an output format and a beautify flag;    *)
(* Convert runs process_folder, which walks the folder, optionally runs    *)
(* an external formatter on every qualifying file, and exports the         *)
(* collected files to one combined document or to one document per file.   *)
(*                                                                         *)
(* Text is modelled as sequences of one-character strings, so that         *)
(* suffix(), stem, lower(), sorted(), split() and the writes of the text   *)
(* exporter are computed, not assumed.                                     *)
(***************************************************************************)
EXTENDS Integers, Sequences, FiniteSets, TLC

VARIABLES
    folder_var,     \* StringVar: the selected folder ("" = <<>>)
    mode_var,       \* StringVar: "Single" | "Separate"
    fmt_var,        \* StringVar: <<"P","D","F">> | <<"T","X","T">>
    beautify_var,   \* BooleanVar
    status_var,     \* StringVar shown in the status bar
    pc,             \* where the Convert handler is
    fs_tree,        \* the listing os.walk sees: directory path -> set of file names
    pending,        \* entries os.walk has still to yield: <<root, file>>
    file_list,      \* process_folder's file_list
    calls,          \* export_single calls process_folder has still to make
    outdir,         \* documents written into the output directory: name -> document
    read_result,    \* what get_code returned for each path it was called on
    log             \* calls and prints, in the order they happen

vars == <<folder_var, mode_var, fmt_var, beautify_var, status_var, pc, fs_tree,
          pending, file_list, calls, outdir, read_result, log>>

\* ---------------------------------------------------------------- bounds

\* The largest number of files (of any kind) in the walked tree.
MaxFiles == 2

\* ------------------------------------------------------------- characters

\* Unicode code points of the characters that occur in file names.
CodePoint ==
    [c \in {".", "/", "B", "P", "Y", "a", "b", "c", "d", "m", "n", "p", "r", "t", "x", "y"} |->
        CASE c = "." -> 46 [] c = "/" -> 47
          [] c = "B" -> 66 [] c = "P" -> 80 [] c = "Y" -> 89
          [] c = "a" -> 97 [] c = "b" -> 98 [] c = "c" -> 99 [] c = "d" -> 100
          [] c = "m" -> 109 [] c = "n" -> 110 [] c = "p" -> 112 [] c = "r" -> 114
          [] c = "t" -> 116 [] c = "x" -> 120 [] c = "y" -> 121]

\* str.lower() on one character.
LowerChar(c) ==
    CASE c = "B" -> "b" [] c = "D" -> "d" [] c = "F" -> "f" [] c = "P" -> "p"
      [] c = "T" -> "t" [] c = "X" -> "x" [] c = "Y" -> "y" [] OTHER -> c

\* str.lower()
Lower(s) == [i \in DOMAIN s |-> LowerChar(s[i])]

\* Python's < on str: lexicographic by code point, a proper prefix first.
RECURSIVE StrLess(_, _)
StrLess(a, b) ==
    IF b = <<>> THEN FALSE
    ELSE IF a = <<>> THEN TRUE
    ELSE IF Head(a) # Head(b) THEN CodePoint[Head(a)] < CodePoint[Head(b)]
    ELSE StrLess(Tail(a), Tail(b))

\* sorted(files)
RECURSIVE Sorted(_)
Sorted(S) ==
    IF S = {} THEN <<>>
    ELSE LET m == CHOOSE x \in S : \A y \in S : x = y \/ StrLess(x, y)
         IN <<m>> \o Sorted(S \ {m})

\* s.rfind(c), 1-based; 0 when c does not occur.
RFind(s, c) ==
    LET hits == {i \in DOMAIN s : s[i] = c}
    IN IF hits = {} THEN 0 ELSE CHOOSE i \in hits : \A j \in hits : j <= i

\* PurePath.name: the final path component.
BaseName(path) == SubSeq(path, RFind(path, "/") + 1, Len(path))

\* PurePath.suffix: from the last dot of the name, unless the name starts or
\* ends with it.
Suffix(path) ==
    LET name == BaseName(path)
        i == RFind(name, ".")
    IN IF 1 < i /\ i < Len(name) THEN SubSeq(name, i, Len(name)) ELSE <<>>

\* os.path.join(root, file)
Join(root, file) == root \o <<"/">> \o file

\* ------------------------------------------------------------- constants

EXTENSIONS ==
    { <<".", "p", "y">>, <<".", "c">>, <<".", "h">>, <<".", "y", "a", "m", "l">>,
      <<".", "y", "m", "l">>, <<".", "c", "p", "p">>, <<".", "j", "a", "v", "a">>,
      <<".", "t", "x", "t">>, <<".", "j", "s", "o", "n">> }

PDF == <<"P", "D", "F">>
TXT == <<"T", "X", "T">>

\* ------------------------------------------------------------ environment

\* The folder the dialog can return, and its subdirectories.
Folder == <<"r">>
SubDirs == {<<"a">>, <<"b">>}
Dirs == {Folder} \cup {Join(Folder, d) : d \in SubDirs}

\* File names a directory can hold: two that differ in case, two that share
\* a stem, one outside the allow-list.
Names ==
    { <<"a", ".", "p", "y">>, <<"B", ".", "P", "Y">>,
      <<"a", ".", "t", "x", "t">>, <<"n", ".", "m", "d">> }

RECURSIVE CountFiles(_, _)
CountFiles(t, ds) ==
    IF ds = {} THEN 0
    ELSE LET d == CHOOSE x \in ds : TRUE
         IN Cardinality(t[d]) + CountFiles(t, ds \ {d})

Trees == {t \in [Dirs -> SUBSET Names] : CountFiles(t, Dirs) <= MaxFiles}

\* The orders in which os.walk can descend into the subdirectories.
WalkOrders ==
    {o \in [1..Cardinality(SubDirs) -> SubDirs] : \A d \in SubDirs : \E i \in DOMAIN o : o[i] = d}

EmptyTree == [d \in Dirs |-> {}]

\* What read_text can do for a file: raise, or return its text (an empty
\* file, or two lines with a space).
Contents ==
    { <<>>, <<"p", ":", "\n", " ", "q">> }

ReadOutcomes ==
    {[raises |-> TRUE, text |-> <<>>]} \cup {[raises |-> FALSE, text |-> c] : c \in Contents}

\* What subprocess.run(..., check=True) can do: return, raise FileNotFoundError
\* (no such executable), raise CalledProcessError (non-zero exit status).
RunOutcomes == {"ok", "FileNotFoundError", "CalledProcessError"}

\* ------------------------------------------------------------------ log

Ev(op, path, arg) == [op |-> op, path |-> path, arg |-> arg]

\* ----------------------------------------------------------- format_code

\* The command format_code selects for an extension ("" = none).
FormatterFor(ext) ==
    IF ext = <<".", "p", "y">> THEN "black"
    ELSE IF ext \in {<<".", "c">>, <<".", "h">>, <<".", "c", "p", "p">>} THEN "clang-format"
    ELSE IF ext \in {<<".", "y", "a", "m", "l">>, <<".", "y", "m", "l">>,
                     <<".", "j", "s", "o", "n">>} THEN "prettier"
    ELSE ""

\* format_code as it would be without its except clauses: a failure of the
\* formatter leaves the function as an exception.
format_code_uncaught(file_path, run) ==
    LET tool == FormatterFor(Lower(Suffix(file_path)))
    IN [ log |-> IF tool = "" THEN <<>>
                 ELSE <<Ev("subprocess.run", file_path, tool)>> \o
                      (IF run # "ok" THEN <<Ev("raises", file_path, run)>> ELSE <<>>),
         escapes |-> tool # "" /\ run # "ok" ]

\* format_code(file_path), run being what subprocess.run does: the log of what
\* it does (the formatter it runs, the exception that raises, what it prints),
\* and whether an exception leaves the function.
format_code(file_path, run) ==
    LET tool == FormatterFor(Lower(Suffix(file_path)))
    IN [ log |->
           IF tool = "" THEN <<>>
           ELSE <<Ev("subprocess.run", file_path, tool)>> \o
                (IF run = "FileNotFoundError"
                   THEN <<Ev("raises", file_path, run),
                          Ev("print", file_path, "Formatter not installed")>>
                 ELSE IF run = "CalledProcessError"
                   THEN <<Ev("raises", file_path, run),
                          Ev("print", file_path, "Could not format")>>
                 ELSE <<>>),
         escapes |-> FALSE ]

\* -------------------------------------------------------------- get_code

None == [is_none |-> TRUE, text |-> <<>>]
Str(t) == [is_none |-> FALSE, text |-> t]

\* get_code(file_path), read being what read_text does.
get_code(file_path, read) ==
    IF read.raises
      THEN [ value |-> None,
             log |-> <<Ev("get_code", file_path, ""),
                       Ev("print", file_path, "Skipping (read error)")>> ]
      ELSE [ value |-> Str(read.text),
             log |-> <<Ev("get_code", file_path, "")>> ]

\* Python truthiness of get_code's result: `if code:`.
Truthy(code) == ~code.is_none /\ code.text # <<>>

\* ------------------------------------------------------- pdf_from_files

\* code.split("\n")
RECURSIVE Split(_)
Split(s) ==
    LET hits == {i \in DOMAIN s : s[i] = "\n"}
    IN IF hits = {} THEN <<s>>
       ELSE LET i == CHOOSE k \in hits : \A j \in hits : k <= j
            IN <<SubSeq(s, 1, i - 1)>> \o Split(SubSeq(s, i + 1, Len(s)))

\* line.replace(" ", "&nbsp;")
RECURSIVE Nbsp(_)
Nbsp(line) ==
    IF line = <<>> THEN <<>>
    ELSE (IF Head(line) = " " THEN <<"&", "n", "b", "s", "p", ";">> ELSE <<Head(line)>>)
         \o Nbsp(Tail(line))

Paragraph(text, style) == [kind |-> "Paragraph", text |-> text, style |-> style]
Spacer == [kind |-> "Spacer", text |-> <<>>, style |-> ""]
PageBreak == [kind |-> "PageBreak", text |-> <<>>, style |-> ""]

\* The flowables one loaded file adds to the story.
PdfUnit(f, code) ==
    <<Paragraph(<<"<", "b", ">">> \o f \o <<"<", "/", "b", ">">>, "Heading3"), Spacer>>
    \o [i \in 1..Len(Split(code.text)) |-> Paragraph(Nbsp(Split(code.text)[i]), "Code")]
    \o <<PageBreak>>

\* The inclusion test of pdf_from_files: `if code is None: continue`.
PdfIncludes(code) == ~code.is_none

\* The loop of pdf_from_files: the story and the log it leaves.
RECURSIVE PdfLoop(_, _)
PdfLoop(files, reads) ==
    IF files = <<>> THEN [body |-> <<>>, log |-> <<>>]
    ELSE LET f == Head(files)
             g == get_code(f, reads[f])
             rest == PdfLoop(Tail(files), reads)
         IN [ body |-> (IF PdfIncludes(g.value) THEN PdfUnit(f, g.value) ELSE <<>>)
                       \o rest.body,
              log |-> g.log \o rest.log ]

\* ------------------------------------------------------- txt_from_files

\* The writes for one file as they would be with a single newline after the code.
TxtUnitNoBlank(f, code) ==
    (<<"#", "#", " ">> \o f \o <<" ", "#", "#", "\n">>) \o (code.text \o <<"\n">>)

\* What txt_from_files writes for one file it includes.
TxtUnit(f, code) ==
    (<<"#", "#", " ">> \o f \o <<" ", "#", "#", "\n">>) \o (code.text \o <<"\n", "\n">>)

\* The inclusion test of txt_from_files: `if code:`.
TxtIncludes(code) == Truthy(code)

RECURSIVE TxtLoop(_, _)
TxtLoop(files, reads) ==
    IF files = <<>> THEN [body |-> <<>>, log |-> <<>>]
    ELSE LET f == Head(files)
             g == get_code(f, reads[f])
             rest == TxtLoop(Tail(files), reads)
         IN [ body |-> (IF TxtIncludes(g.value) THEN TxtUnit(f, g.value) ELSE <<>>)
                       \o rest.body,
              log |-> g.log \o rest.log ]

\* -------------------------------------------------------- export_single

\* export_single(files, out_file, fmt): reads is what read_text does for each
\* file, write_ok whether the document can be written.  In TXT the document is
\* opened before any file is read; in PDF it is built after all are read.
export_single(files, out_file, fmt, reads, write_ok) ==
    IF fmt = PDF THEN
        LET r == PdfLoop(files, reads)
        IN [ raised |-> ~write_ok,
             read |-> files,
             log |-> r.log \o (IF write_ok THEN <<Ev("write", out_file, "")>> ELSE <<>>),
             written |-> IF write_ok THEN <<[fmt |-> "pdf", body |-> r.body]>> ELSE <<>> ]
    ELSE IF fmt = TXT THEN
        LET r == TxtLoop(files, reads)
        IN IF write_ok
             THEN [ raised |-> FALSE, read |-> files,
                    log |-> r.log \o <<Ev("write", out_file, "")>>,
                    written |-> <<[fmt |-> "txt", body |-> r.body]>> ]
             ELSE [ raised |-> TRUE, read |-> <<>>, log |-> <<>>, written |-> <<>> ]
    ELSE [ raised |-> FALSE, read |-> <<>>, log |-> <<>>, written |-> <<>> ]

\* -------------------------------------------------------- process_folder

\* The stem as it would be if the suffix were kept.
StemWithSuffix(path) == BaseName(path)

\* PurePath.stem: the name without its suffix.
Stem(path) ==
    LET name == BaseName(path)
        i == RFind(name, ".")
    IN IF 1 < i /\ i < Len(name) THEN SubSeq(name, 1, i - 1) ELSE name

\* The filter as it would be without lower().
QualifiesCaseSensitive(file) == Suffix(file) \in EXTENSIONS

\* The filter of the walk: Path(file).suffix.lower() in EXTENSIONS.
Qualifies(file) == Lower(Suffix(file)) \in EXTENSIONS

\* The order in which the walk visits the files of one directory.
FilesInOrder(files) == Sorted(files)

RECURSIVE Flatten(_)
Flatten(ss) == IF ss = <<>> THEN <<>> ELSE Head(ss) \o Flatten(Tail(ss))

\* What `for root, _, files in os.walk(folder): for file in sorted(files)`
\* iterates over: the folder first, then its subdirectories in the order o.
WalkEntries(t, o) ==
    LET roots == <<Folder>> \o [i \in DOMAIN o |-> Join(Folder, o[i])]
        inDir(root) == LET fs == FilesInOrder(t[root])
                       IN [j \in DOMAIN fs |-> <<root, fs[j]>>]
    IN Flatten([i \in DOMAIN roots |-> inDir(roots[i])])

\* The call of format_code as it would be without `if beautify`.
FormatAlways(beautify, full_path, run) ==
    LET r == format_code(full_path, run)
    IN [ log |-> <<Ev("format_code", full_path, "")>> \o r.log,
         escapes |-> r.escapes ]

\* `if beautify: format_code(full_path)`
FormatIfBeautify(beautify, full_path, run) ==
    IF beautify
      THEN LET r == format_code(full_path, run)
           IN [ log |-> <<Ev("format_code", full_path, "")>> \o r.log,
                escapes |-> r.escapes ]
      ELSE [log |-> <<>>, escapes |-> FALSE]

AllCode == <<"a", "l", "l", "_", "c", "o", "d", "e">>

\* The name of the combined document as it would be without fmt.lower().
SingleOutFileNoLower(fmt) == AllCode \o <<".">> \o fmt

\* The name of the combined document, in the output directory.
SingleOutFile(fmt) == AllCode \o <<".">> \o Lower(fmt)

\* The name of a file's own document, in the output directory.
SeparateOutFile(f, fmt) == Stem(f) \o <<".">> \o Lower(fmt)

\* The export_single calls as they would be if the per-file loop ran backwards.
ExportCallsReversed(mode, files, fmt) ==
    IF mode = "Single"
      THEN << [files |-> files, out_file |-> SingleOutFile(fmt)] >>
      ELSE [i \in DOMAIN files |->
              [files |-> <<files[Len(files) + 1 - i]>>,
               out_file |-> SeparateOutFile(files[Len(files) + 1 - i], fmt)]]

\* The export_single calls of process_folder, in order.
ExportCalls(mode, files, fmt) ==
    IF mode = "Single"
      THEN << [files |-> files, out_file |-> SingleOutFile(fmt)] >>
      ELSE [i \in DOMAIN files |->
              [files |-> <<files[i]>>, out_file |-> SeparateOutFile(files[i], fmt)]]

Range(s) == {s[i] : i \in DOMAIN s}

\* ---------------------------------------------------------------- state

Init ==
    /\ folder_var = <<>>
    /\ mode_var = "Single"
    /\ fmt_var = PDF
    /\ beautify_var = TRUE
    /\ status_var = <<"Ready to start">>
    /\ pc = "idle"
    /\ fs_tree = EmptyTree
    /\ pending = <<>>
    /\ file_list = <<>>
    /\ calls = <<>>
    /\ outdir = [n \in {} |-> n]
    /\ read_result = [f \in {} |-> f]
    /\ log = <<>>

run_state == <<pc, fs_tree, pending, file_list, calls, outdir, read_result, log>>

\* browse_folder: the dialog returns a folder, or "" when it is cancelled.
browse_folder ==
    /\ pc = "idle"
    /\ \E folder \in {<<>>, Folder} :
         IF folder # <<>>
           THEN /\ folder_var' = folder
                /\ status_var' = <<"Selected folder: ", BaseName(folder)>>
           ELSE UNCHANGED <<folder_var, status_var>>
    /\ UNCHANGED <<mode_var, fmt_var, beautify_var>>
    /\ UNCHANGED run_state

\* The user picks an export mode in mode_combo.
mode_combo ==
    /\ pc = "idle"
    /\ \E m \in {"Single", "Separate"} : mode_var' = m
    /\ UNCHANGED <<folder_var, fmt_var, beautify_var, status_var>>
    /\ UNCHANGED run_state

\* The user picks an output format in fmt_combo.
fmt_combo ==
    /\ pc = "idle"
    /\ \E f \in {PDF, TXT} : fmt_var' = f
    /\ UNCHANGED <<folder_var, mode_var, beautify_var, status_var>>
    /\ UNCHANGED run_state

\* The user toggles beautify_check.
beautify_check ==
    /\ pc = "idle"
    /\ beautify_var' = ~beautify_var
    /\ UNCHANGED <<folder_var, mode_var, fmt_var, status_var>>
    /\ UNCHANGED run_state

\* start_process up to the call of process_folder.
start_process ==
    /\ pc = "idle"
    /\ IF folder_var = <<>>
         THEN /\ status_var' = <<"Error: No folder selected">>
              /\ pc' = pc
         ELSE /\ status_var' = <<"Processing files...">>
              /\ pc' = "process_folder"
    /\ UNCHANGED <<folder_var, mode_var, fmt_var, beautify_var>>
    /\ UNCHANGED <<fs_tree, pending, file_list, calls, outdir, read_result, log>>

\* process_folder up to the walk: output_dir.mkdir raises, or the walk starts
\* on the tree it finds under the folder.
process_folder_enter ==
    /\ pc = "process_folder"
    /\ \E mkdir_ok \in BOOLEAN :
         IF mkdir_ok
           THEN \E t \in Trees, o \in WalkOrders :
                  /\ fs_tree' = t
                  /\ pending' = WalkEntries(t, o)
                  /\ pc' = "walk"
           ELSE /\ pc' = "raised"
                /\ UNCHANGED <<fs_tree, pending>>
    /\ UNCHANGED <<folder_var, mode_var, fmt_var, beautify_var, status_var>>
    /\ UNCHANGED <<file_list, calls, outdir, read_result, log>>

\* One iteration of the walk's inner loop.
walk_step ==
    /\ pc = "walk"
    /\ pending # <<>>
    /\ LET root == Head(pending)[1]
           file == Head(pending)[2]
           full_path == Join(root, file)
       IN IF Qualifies(file)
            THEN \E run \in RunOutcomes :
                   LET r == FormatIfBeautify(beautify_var, full_path, run)
                   IN /\ log' = log \o r.log
                      /\ IF r.escapes
                           THEN /\ pc' = "raised"
                                /\ UNCHANGED <<file_list, pending>>
                           ELSE /\ file_list' = Append(file_list, full_path)
                                /\ pending' = Tail(pending)
                                /\ pc' = pc
            ELSE /\ pending' = Tail(pending)
                 /\ UNCHANGED <<file_list, log, pc>>
    /\ UNCHANGED <<folder_var, mode_var, fmt_var, beautify_var, status_var>>
    /\ UNCHANGED <<fs_tree, calls, outdir, read_result>>

\* The walk is over: process_folder turns to the export.
walk_done ==
    /\ pc = "walk"
    /\ pending = <<>>
    /\ calls' = ExportCalls(mode_var, file_list, fmt_var)
    /\ pc' = "export"
    /\ UNCHANGED <<folder_var, mode_var, fmt_var, beautify_var, status_var>>
    /\ UNCHANGED <<fs_tree, pending, file_list, outdir, read_result, log>>

\* One export_single call of process_folder.
export_call ==
    /\ pc = "export"
    /\ calls # <<>>
    /\ LET c == Head(calls)
       IN \E reads \in [Range(c.files) -> ReadOutcomes], write_ok \in BOOLEAN :
            LET r == export_single(c.files, c.out_file, fmt_var, reads, write_ok)
                got == [f \in Range(r.read) |-> get_code(f, reads[f]).value]
            IN /\ log' = log \o r.log
               /\ read_result' = got @@ read_result
               /\ outdir' = IF r.written # <<>>
                              THEN (c.out_file :> r.written[1]) @@ outdir
                              ELSE outdir
               /\ IF r.raised
                    THEN pc' = "raised" /\ calls' = calls
                    ELSE pc' = pc /\ calls' = Tail(calls)
    /\ UNCHANGED <<folder_var, mode_var, fmt_var, beautify_var, status_var>>
    /\ UNCHANGED <<fs_tree, pending, file_list>>

\* process_folder has returned: start_process reports.
start_process_done ==
    /\ pc = "export"
    /\ calls = <<>>
    /\ status_var' = <<"Export complete: ", fmt_var, " in ", mode_var, " mode">>
    /\ pc' = "done"
    /\ UNCHANGED <<folder_var, mode_var, fmt_var, beautify_var>>
    /\ UNCHANGED <<fs_tree, pending, file_list, calls, outdir, read_result, log>>

Next ==
    \/ browse_folder
    \/ mode_combo
    \/ fmt_combo
    \/ beautify_check
    \/ start_process
    \/ process_folder_enter
    \/ walk_step
    \/ walk_done
    \/ export_call
    \/ start_process_done

Spec == Init /\ [][Next]_vars

\* ============================================================ properties

\* The walk of process_folder is over: file_list is complete.
Collected == pc \in {"export", "done"}

\* The directory part of a path.
DirName(path) == SubSeq(path, 1, RFind(path, "/") - 1)

\* The files of the walked tree, as paths.
TreePaths == UNION {{Join(d, n) : n \in fs_tree[d]} : d \in Dirs}

\* A file name that ends, whatever its case, with an extension of the
\* allow-list after a non-empty stem.
EndsWithAllowed(name) ==
    \E e \in EXTENSIONS :
        /\ Len(name) > Len(e)
        /\ Lower(SubSeq(name, Len(name) - Len(e) + 1, Len(name))) = e

\* The events of the log with a given op, in order.
Events(op) == SelectSeq(log, LAMBDA e : e.op = op)
Paths(evs) == [i \in DOMAIN evs |-> evs[i].path]

\* C1: once the walk is over, file_list holds exactly the files of the tree,
\* at any depth, whose name ends case-insensitively with an extension of the
\* allow-list, each exactly once; the files of one directory are contiguous
\* and in ascending lexicographic order of file name.
C1_CollectorExact ==
    Collected =>
        /\ Range(file_list) = {p \in TreePaths : EndsWithAllowed(BaseName(p))}
        /\ Cardinality(Range(file_list)) = Len(file_list)
        /\ \A i, j \in DOMAIN file_list :
             (i < j /\ DirName(file_list[i]) = DirName(file_list[j])) =>
                /\ StrLess(BaseName(file_list[i]), BaseName(file_list[j]))
                /\ \A k \in i..j : DirName(file_list[k]) = DirName(file_list[i])

\* C1's case: a directory with an upper-case and a lower-case qualifying file.
C1_Witness ==
    /\ Collected
    /\ Len(file_list) = 2
    /\ DirName(file_list[1]) = DirName(file_list[2])
    /\ BaseName(file_list[1]) = <<"B", ".", "P", "Y">>

\* C5: with beautify off no formatter is ever run and format_code is never
\* called; with beautify on format_code is called exactly once for each file
\* appended to file_list, in that order, and for no other file.
C5_BeautifyGate ==
    /\ ~beautify_var => (Events("subprocess.run") = <<>> /\ Events("format_code") = <<>>)
    /\ beautify_var => Paths(Events("format_code")) = file_list

\* C5's case: a finished run with beautify off over two collected files.
C5_Witness ==
    /\ pc = "done"
    /\ ~beautify_var
    /\ Len(file_list) = 2

\* The formatter failures in the log: the exceptions subprocess.run raised.
FormatterFailures == {i \in DOMAIN log : log[i].op = "raises"}

\* C6: a formatter that is missing or fails never aborts the run: format_code
\* prints a diagnostic for the file right after the exception, the file is
\* appended to file_list, the walk goes on to collect every qualifying file,
\* and every collected file is loaded once process_folder has returned.
C6_FormatterFailureIsolated ==
    FormatterFailures # {} =>
        /\ \A i \in FormatterFailures :
             /\ i < Len(log)
             /\ log[i + 1].op = "print"
             /\ log[i + 1].path = log[i].path
             /\ log[i].path \in Range(file_list)
        /\ pc = "raised" => calls # <<>>
        /\ Collected =>
             Range(file_list) = {p \in TreePaths : EndsWithAllowed(BaseName(p))}
        /\ pc = "done" => Range(file_list) \subseteq Range(Paths(Events("get_code")))

\* C6's case: the formatter of the first of two files failed, and the run
\* went on to collect, load and export both.
C6_Witness ==
    /\ pc = "done"
    /\ Len(file_list) = 2
    /\ \E i \in FormatterFailures : log[i].path = file_list[1]
    /\ Cardinality(DOMAIN outdir) >= 1

\* ------------------------------------------------- reading the documents

\* The labels of the delimiter lines "## <label> ##" of a text document.
TxtLabels(body) ==
    LET IsDelim(l) == /\ Len(l) >= 6
                      /\ SubSeq(l, 1, 3) = <<"#", "#", " ">>
                      /\ SubSeq(l, Len(l) - 2, Len(l)) = <<" ", "#", "#">>
        delims == SelectSeq(Split(body), IsDelim)
    IN [i \in DOMAIN delims |-> SubSeq(delims[i], 4, Len(delims[i]) - 3)]

\* The labels of the headings "<b><label></b>" of a PDF story.
PdfLabels(body) ==
    LET heads == SelectSeq(body, LAMBDA x : x.kind = "Paragraph" /\ x.style = "Heading3")
    IN [i \in DOMAIN heads |-> SubSeq(heads[i].text, 4, Len(heads[i].text) - 4)]

\* The labels of a document's sections, in order.
DocLabels(doc) == IF doc.fmt = "pdf" THEN PdfLabels(doc.body) ELSE TxtLabels(doc.body)

\* The extension of the run's documents.
DocExt == IF fmt_var = PDF THEN <<"p", "d", "f">> ELSE <<"t", "x", "t">>

\* all_code.<ext>
AllCodeName == <<"a", "l", "l", "_", "c", "o", "d", "e", ".">> \o DocExt

\* <stem>.<ext> of a source file: its name up to its suffix, then the extension.
StemName(f) ==
    SubSeq(BaseName(f), 1, Len(BaseName(f)) - Len(Suffix(f))) \o <<".">> \o DocExt

\* get_code was called on f and returned its text.
ReadOk(f) == f \in DOMAIN read_result /\ ~read_result[f].is_none

\* get_code was called on f and returned None.
ReadFailed(f) == f \in DOMAIN read_result /\ read_result[f].is_none

\* f was read, and in TXT format its text is not empty.
Emitted(f) == ReadOk(f) /\ (fmt_var = TXT => read_result[f].text # <<>>)

\* The export_single calls that have returned.
CallsDone == Len(file_list) - Len(calls)

\* The files of the call that last wrote the document named n.
LastCallFiles(n) ==
    IF mode_var = "Single" THEN file_list
    ELSE LET done == IF pc = "done" THEN Len(file_list) ELSE CallsDone
             is == {i \in 1..done : StemName(file_list[i]) = n}
         IN IF is = {} THEN <<>>
            ELSE <<file_list[CHOOSE i \in is : \A j \in is : j <= i]>>

\* C2 as stated: in combined mode a finished run has written exactly one
\* document, all_code.<ext>, whose labeled sections are the qualifying
\* files, one each, in the order of file_list.
C2_OneSectionPerFile ==
    (pc = "done" /\ mode_var = "Single") =>
        /\ DOMAIN outdir = {AllCodeName}
        /\ DocLabels(outdir[AllCodeName]) = file_list

\* C2 as amended: in combined mode a finished run has written exactly one
\* document, all_code.<ext>, whose labeled sections are, in the order of
\* file_list, the qualifying files get_code could read (in TXT format: could
\* read and found non-empty).
C2_OneSectionPerEmittedFile ==
    (pc = "done" /\ mode_var = "Single") =>
        /\ DOMAIN outdir = {AllCodeName}
        /\ DocLabels(outdir[AllCodeName]) = SelectSeq(file_list, Emitted)

\* C2's case: a combined export of two files, one of them without a section.
C2_Witness ==
    /\ pc = "done"
    /\ mode_var = "Single"
    /\ Len(file_list) = 2
    /\ Emitted(file_list[1])
    /\ ~Emitted(file_list[2])
    /\ Len(DocLabels(outdir[AllCodeName])) = 1

\* C3 as stated: in per-file mode a finished run leaves exactly N documents,
\* one per qualifying file, each named <stem>.<ext>.
C3_OneDocumentPerFile ==
    (pc = "done" /\ mode_var = "Separate") =>
        /\ DOMAIN outdir = {StemName(f) : f \in Range(file_list)}
        /\ Cardinality(DOMAIN outdir) = Len(file_list)

\* C3 as amended: in per-file mode a finished run leaves exactly one document
\* per distinct stem of the qualifying files, named <stem>.<ext>; files that
\* share a stem share the document, which holds the last of them in the order
\* of file_list (its section if it was emitted, nothing otherwise).
C3_OneDocumentPerStem ==
    (pc = "done" /\ mode_var = "Separate") =>
        /\ DOMAIN outdir = {StemName(f) : f \in Range(file_list)}
        /\ \A n \in DOMAIN outdir :
             DocLabels(outdir[n]) = SelectSeq(LastCallFiles(n), Emitted)

\* C3's case: two qualifying files with one base name in different
\* subdirectories, exported per file.
C3_Witness ==
    /\ pc = "done"
    /\ mode_var = "Separate"
    /\ Len(file_list) = 2
    /\ DirName(file_list[1]) # DirName(file_list[2])
    /\ BaseName(file_list[1]) = BaseName(file_list[2])
    /\ Cardinality(DOMAIN outdir) = 1

\* The name of the document process_folder exports f to.
OutNameOf(f) == IF mode_var = "Single" THEN AllCodeName ELSE StemName(f)

\* No later file of file_list is exported to the document of file_list[i].
LastWriter(i) ==
    \A j \in DOMAIN file_list : j > i => OutNameOf(file_list[j]) # OutNameOf(file_list[i])

\* C4: when some file of the list fails to read, a finished run has printed a
\* diagnostic for it and no document holds a section for it, and every other
\* file that could be read has its section in its document (a document that a
\* later file of the same name overwrote is not looked at).
C4_ReadFailureIsolated ==
    (pc = "done" /\ \E f \in Range(file_list) : ReadFailed(f)) =>
        /\ \A f \in Range(file_list) :
             ReadFailed(f) =>
                /\ \E i \in DOMAIN log : log[i].op = "print" /\ log[i].path = f
                /\ \A n \in DOMAIN outdir : f \notin Range(DocLabels(outdir[n]))
        /\ \A i \in DOMAIN file_list :
             (ReadOk(file_list[i]) /\ LastWriter(i)) =>
                /\ OutNameOf(file_list[i]) \in DOMAIN outdir
                /\ file_list[i] \in Range(DocLabels(outdir[OutNameOf(file_list[i])]))

\* The lines the text format is to hold for a sequence of units: per unit the
\* delimiter line, the lines of the content, a blank line; the stream ends
\* with a newline, so a last empty piece follows.
ExpectedLines(units) ==
    Flatten([i \in DOMAIN units |->
               << <<"#", "#", " ">> \o units[i] \o <<" ", "#", "#">> >>
               \o Split(read_result[units[i]].text)
               \o << <<>> >>])
    \o << <<>> >>

StatusKind(status) ==
    IF status[1] = "Export complete: " THEN "success"
    ELSE IF status[1] = "Error: No folder selected" THEN "failure"
    ELSE "none"

\* C8: once the job has ended the status is a final one: a failure when the
\* output directory could not be created or a write failed, a partial success
\* when files were skipped, never "Processing files...", never a plain success
\* with skipped files.
C8_FinalStatus ==
    pc \in {"done", "raised"} =>
        /\ status_var # <<"Processing files...">>
        /\ StatusKind(status_var) \in {"success", "partial", "failure"}
        /\ pc = "raised" => StatusKind(status_var) = "failure"
        /\ (pc = "done" /\ \E f \in Range(file_list) : ReadFailed(f)) =>
              StatusKind(status_var) = "partial"

\* The position of a path in file_list.
Idx(p) == CHOOSE i \in DOMAIN file_list : file_list[i] = p

\* The number of events with a given op among the first i events of the log.
CountBefore(op, i) == Cardinality({j \in 1..(i - 1) : log[j].op = op})

LoadsAndWrites == SelectSeq(log, LAMBDA e : e.op \in {"get_code", "write"})

ReadsOfRun ==
    [f \in Range(file_list) |->
        IF read_result[f].is_none
          THEN [raises |-> TRUE, text |-> <<>>]
          ELSE [raises |-> FALSE, text |-> read_result[f].text]]

\* C10: for the file list and the file contents of a finished run, a file has
\* a section in the text output if and only if it has one in the PDF output,
\* namely if and only if get_code could read it.
C10_SameInclusion ==
    pc = "done" =>
        \A f \in Range(file_list) :
            /\ (f \in Range(TxtLabels(TxtLoop(file_list, ReadsOfRun).body)))
                 <=> (f \in Range(PdfLabels(PdfLoop(file_list, ReadsOfRun).body)))
            /\ (f \in Range(PdfLabels(PdfLoop(file_list, ReadsOfRun).body)))
                 <=> ReadOk(f)

====
